---- MODULE Spec2Model ----
(***************************************************************************)
(* zipstream: the Range HTTP adapter (src/serve_range.rs) and the request  *)
(* orchestrator (src/main.rs).                                             *)
(*                                                                         *)
(* Strings are sequences of one-character strings, so that starts_with,    *)
(* trim, find and the decimal parsing and formatting of numbers are        *)
(* computed character by character.  u64 is modelled as an unsigned word   *)
(* of U64Bits bits: every number the code handles lies in 0..U64_MAX and   *)
(* the parser rejects a decimal string whose value exceeds U64_MAX.        *)
(***************************************************************************)
EXTENDS Integers, Sequences, FiniteSets, TLC

\* ------------------------------------------------------------------ bounds

\* Width of the unsigned word that stands for u64.
U64Bits == 3

\* Longest text after the range unit in a Range header value.
MaxLen == 3

\* Entities of every length 0..MaxSmallLen are served, and one of length U64_MAX.
MaxSmallLen == 2

U64_MAX == 2^U64Bits - 1

\* ----------------------------------------------------------------- strings

None == << >>

Some(x) == << x >>

IsSome(o) == Len(o) = 1

Unwrap(o) == o[1]

BYTES_UNIT == << "b", "y", "t", "e", "s", "=" >>

LINES_UNIT == << "l", "i", "n", "e", "s", "=" >>

Digits == << "0", "1", "2", "3", "4", "5", "6", "7", "8", "9" >>

IsDigit(c) == \E i \in 1..10 : Digits[i] = c

DigitVal(c) == (CHOOSE i \in 1..10 : Digits[i] = c) - 1

\* str::starts_with
StartsWith(s, p) == Len(s) >= Len(p) /\ SubSeq(s, 1, Len(p)) = p

\* str::ends_with
EndsWith(s, p) == Len(s) >= Len(p) /\ SubSeq(s, Len(s) - Len(p) + 1, Len(s)) = p

\* str::contains for a one-character pattern
Contains(s, c) == \E i \in 1..Len(s) : s[i] = c

\* str::find for a one-character pattern: the 0-based index of the first match
Find(s, c) ==
    IF Contains(s, c)
    THEN Some((CHOOSE i \in 1..Len(s) : s[i] = c /\ \A j \in 1..(i - 1) : s[j] # c) - 1)
    ELSE None

IsWhitespace(c) == c = " "

\* str::trim: drops leading and trailing whitespace
Trim(s) ==
    LET keep == { i \in 1..Len(s) : ~IsWhitespace(s[i]) }
    IN  IF keep = {} THEN << >>
        ELSE LET lo == CHOOSE i \in keep : \A j \in keep : i <= j
                 hi == CHOOSE i \in keep : \A j \in keep : j <= i
             IN  SubSeq(s, lo, hi)

\* Slice s[from..to) with 0-based byte offsets, as Rust's &s[from..to]
Slice(s, from, to) == SubSeq(s, from + 1, to)

\* The digit loop of u64::from_str: acc * 10 (checked_mul) then + digit
\* (checked_add); a non-digit or a result above U64_MAX is an error.
RECURSIVE ParseDigits(_, _)
ParseDigits(s, acc) ==
    IF s = << >> THEN Some(acc)
    ELSE IF ~IsDigit(Head(s)) THEN None
    ELSE IF acc * 10 > U64_MAX THEN None
    ELSE IF acc * 10 + DigitVal(Head(s)) > U64_MAX THEN None
    ELSE ParseDigits(Tail(s), acc * 10 + DigitVal(Head(s)))

\* str::parse::<u64>: empty is an error, one leading "+" is accepted, a lone
\* sign is an error, "-" is not accepted for an unsigned type.
ParseU64(s) ==
    IF s = << >> THEN None
    ELSE IF Head(s) = "+"
         THEN (IF Tail(s) = << >> THEN None ELSE ParseDigits(Tail(s), 0))
         ELSE ParseDigits(s, 0)

\* Display for u64: the decimal digits, no sign, no leading zeros
RECURSIVE FmtU64(_)
FmtU64(n) ==
    IF n < 10 THEN << Digits[n + 1] >>
    ELSE Append(FmtU64(n \div 10), Digits[(n % 10) + 1])

\* ------------------------------------------------------------- u64 words

\* a - b and a + b on u64.  val is the wrapped word; ovf records that the
\* exact result left 0..U64_MAX (a panic in a debug build, a wrap in a
\* release build).
USub(a, b) == [val |-> (a - b + 2^U64Bits) % 2^U64Bits, ovf |-> a < b]

UAdd(a, b) == [val |-> (a + b) % 2^U64Bits, ovf |-> a + b > U64_MAX]

\* --------------------------------------------------------- parse_range

Err(msg) == [kind |-> "Err", msg |-> msg, start |-> 0, end |-> 0, ovf |-> FALSE]

OkNone == [kind |-> "None", msg |-> "", start |-> 0, end |-> 0, ovf |-> FALSE]

OkSome(s, e, o) == [kind |-> "Some", msg |-> "", start |-> s, end |-> e, ovf |-> o]

\* Mutant of parse_suffix: the bound check of the suffix length is missing.
parse_suffix_unguarded(range_val, total_len) ==
    LET s == ParseU64(Slice(range_val, 1, Len(range_val)))
    IN  IF ~IsSome(s) THEN Err("invalid range number")
        ELSE LET d == USub(total_len, Unwrap(s))
             IN  OkSome(d.val, total_len, d.ovf)

\* Mutant of parse_suffix: an unparsable suffix length is taken as absent.
parse_suffix_lenient(range_val, total_len) ==
    LET s == ParseU64(Slice(range_val, 1, Len(range_val)))
    IN  IF ~IsSome(s) THEN OkNone
        ELSE IF Unwrap(s) >= total_len THEN OkNone
        ELSE LET d == USub(total_len, Unwrap(s))
             IN  OkSome(d.val, total_len, d.ovf)

\* "-N": the last N bytes
parse_suffix(range_val, total_len) ==
    LET s == ParseU64(Slice(range_val, 1, Len(range_val)))
    IN  IF ~IsSome(s) THEN Err("invalid range number")
        ELSE IF Unwrap(s) >= total_len THEN OkNone
        ELSE LET d == USub(total_len, Unwrap(s))
             IN  OkSome(d.val, total_len, d.ovf)

\* "N-": from N to the end
parse_from(range_val, total_len) ==
    LET s == ParseU64(Slice(range_val, 0, Len(range_val) - 1))
    IN  IF ~IsSome(s) THEN Err("invalid range number")
        ELSE IF Unwrap(s) >= total_len THEN OkNone
        ELSE OkSome(Unwrap(s), total_len, FALSE)

\* "A-B" split at the first "-", at 0-based index h
parse_pair(range_val, h, total_len) ==
    LET s == ParseU64(Slice(range_val, 0, h))
        e == ParseU64(Slice(range_val, h + 1, Len(range_val)))
    IN  IF ~IsSome(s) THEN Err("invalid range number")
        ELSE IF ~IsSome(e) THEN Err("invalid range number")
        ELSE IF Unwrap(e) >= total_len \/ Unwrap(s) > Unwrap(e) THEN OkNone
        ELSE LET e1 == UAdd(Unwrap(e), 1)
             IN  OkSome(Unwrap(s), e1.val, e1.ovf)

parse_range(header_val, total_len) ==
    IF ~StartsWith(header_val, BYTES_UNIT) THEN Err("invalid range unit")
    ELSE LET range_val == Trim(Slice(header_val, Len(BYTES_UNIT), Len(header_val)))
         IN  IF Contains(range_val, ",") THEN OkNone
             ELSE IF StartsWith(range_val, << "-" >>)
                  THEN parse_suffix(range_val, total_len)
             ELSE IF EndsWith(range_val, << "-" >>)
                  THEN parse_from(range_val, total_len)
             ELSE IF IsSome(Find(range_val, "-"))
                  THEN parse_pair(range_val, Unwrap(Find(range_val, "-")), total_len)
             ELSE Err("invalid range")

\* ------------------------------------------------------ hyper_response

\* A byte of a header value outside visible ASCII (HeaderValue holds it,
\* HeaderValue::to_str refuses it).
OBS_BYTE == "<ff>"

\* HeaderValue::to_str(..).ok()
to_str(v) == IF \E i \in 1..Len(v) : v[i] = OBS_BYTE THEN None ELSE Some(v)

\* Range::len (crate::stream_range)
range_len(range) == USub(range.end, range.start)

\* StreamRange for an in-memory buffer: the bytes [start, end) of data
stream_range(data, range) == SubSeq(data, range.start + 1, range.end)

ACCEPT_RANGES_BYTES == << "b", "y", "t", "e", "s" >>

\* format!("attachment; filename=\"{}\"", filename)
content_disposition(filename) ==
    << "a", "t", "t", "a", "c", "h", "m", "e", "n", "t", ";", " ",
       "f", "i", "l", "e", "n", "a", "m", "e", "=", "\"" >> \o filename \o << "\"" >>

\* Mutant of content_range: the exclusive end is written as it is.
content_range_exclusive(range, full_len) ==
    [val |-> << "b", "y", "t", "e", "s", " " >> \o FmtU64(range.start) \o << "-" >>
                 \o FmtU64(range.end) \o << "/" >> \o FmtU64(full_len),
     ovf |-> FALSE]

\* format!("bytes {}-{}/{}", range.start, range.end - 1, full_len)
content_range(range, full_len) ==
    LET last == USub(range.end, 1)
    IN  [val |-> << "b", "y", "t", "e", "s", " " >> \o FmtU64(range.start) \o << "-" >>
                     \o FmtU64(last.val) \o << "/" >> \o FmtU64(full_len),
         ovf |-> last.ovf]

\* Mutant of requested_range: the If-Range header is not looked at.
requested_range_no_if_range(req, etag, full_len) ==
    IF ~IsSome(req.range) THEN OkNone
    ELSE IF ~IsSome(to_str(Unwrap(req.range))) THEN OkNone
    ELSE LET r == parse_range(Unwrap(to_str(Unwrap(req.range))), full_len)
         IN  IF r.kind = "Some" THEN r ELSE OkNone

\* Mutant of requested_range: a Range header that does not parse selects
\* the whole entity as a range.
requested_range_err_is_full(req, etag, full_len) ==
    IF ~IsSome(req.range) THEN OkNone
    ELSE IF IsSome(req.if_range) /\ Unwrap(req.if_range) # etag THEN OkNone
    ELSE IF ~IsSome(to_str(Unwrap(req.range))) THEN OkNone
    ELSE LET r == parse_range(Unwrap(to_str(Unwrap(req.range))), full_len)
         IN  IF r.kind = "Some" THEN r
             ELSE IF r.kind = "Err" THEN OkSome(0, full_len, FALSE)
             ELSE OkNone

\* The range the request selects: get(RANGE), filtered by If-Range == etag,
\* to_str().ok(), parse_range(..).ok(), flattened.  OkNone stands for None.
requested_range(req, etag, full_len) ==
    IF ~IsSome(req.range) THEN OkNone
    ELSE IF IsSome(req.if_range) /\ Unwrap(req.if_range) # etag THEN OkNone
    ELSE IF ~IsSome(to_str(Unwrap(req.range))) THEN OkNone
    ELSE LET r == parse_range(Unwrap(to_str(Unwrap(req.range))), full_len)
         IN  IF r.kind = "Some" THEN r ELSE OkNone

hyper_response(req, content_type, etag, filename, data) ==
    LET full_len   == Len(data)
        full_range == [start |-> 0, end |-> full_len]
        sel        == requested_range(req, etag, full_len)
        partial    == sel.kind = "Some"
        range      == IF partial THEN [start |-> sel.start, end |-> sel.end]
                      ELSE full_range
        cr         == content_range(range, full_len)
        length     == range_len(range)
    IN  [status              |-> IF partial THEN 206 ELSE 200,
         content_type        |-> Some(content_type),
         accept_ranges       |-> Some(ACCEPT_RANGES_BYTES),
         etag                |-> Some(etag),
         content_disposition |-> Some(content_disposition(filename)),
         content_range       |-> IF partial THEN Some(cr.val) ELSE None,
         content_length      |-> Some(FmtU64(length.val)),
         body                |-> stream_range(data, range),
         stream_calls        |-> << range >>,
         ovf                 |-> sel.ovf \/ (partial /\ cr.ovf) \/ length.ovf]

\* ---------------------------------------------------------------- state

VARIABLES
    range_hdr,      \* the Range header value under test: None or Some(text)
    total_len,      \* length of the entity
    parsed,         \* None, or Some(result of parse_range(range_hdr, total_len))
    call_req,       \* None, or Some(request given to hyper_response)
    call_res,       \* None, or Some(response of hyper_response)
    pc,             \* position of the service future for one incoming request
    config,         \* Config
    req,            \* the incoming request
    upstream_req,   \* None, or Some(request built by upstream::request)
    upstream_res,   \* None, or Some(response received from the upstream)
    handed,         \* None, or Some(bytes given to upstream::response)
    result,         \* None, or Some(what handle_request returned)
    client_res,     \* the responses the service produced, in order
    sent,           \* upstream requests sent
    reads           \* reads of the upstream body started

range_vars == << range_hdr, total_len, parsed, call_req, call_res >>

orch_vars == << pc, config, req, upstream_req, upstream_res, handed, result,
                client_res, sent, reads >>

vars == << range_hdr, total_len, parsed, call_req, call_res, pc, config, req,
           upstream_req, upstream_res, handed, result, client_res, sent, reads >>

\* ------------------------------------------------------ inputs (bounded)

Alphabet == { "0", "1", "7", "9", "-", ",", "a", "+", " ", OBS_BYTE }

Texts(n) == UNION { [1..k -> Alphabet] : k \in 0..n }

RangeHeaders ==
    { None } \cup { Some(u \o t) : u \in { BYTES_UNIT, LINES_UNIT }, t \in Texts(MaxLen) }

TotalLens == (0..MaxSmallLen) \cup { U64_MAX }

\* The entity: byte i of it has the value i mod 256
DataOf(n) == [i \in 1..n |-> (i - 1) % 256]

TEST_CONTENT_TYPE ==
    << "a", "p", "p", "l", "i", "c", "a", "t", "i", "o", "n", "/", "t", "e", "s", "t" >>

TEST_ETAG == << "E", "T", "A", "G" >>

TEST_FILENAME == << "f", "o", "o", ".", "z", "i", "p" >>

IfRangeHeaders ==
    { None, Some(TEST_ETAG), Some(<< "W", "R", "O", "N", "G" >>),
      Some(<< "e", "t", "a", "g" >>) }

\* ------------------------------------- the range adapter, function by function

OrchIdle ==
    /\ pc = "idle"
    /\ config = [upstream |-> << >>, strip_prefix |-> << >>,
                 via_zip_stream_header_value |-> << >>]
    /\ req = [path |-> << >>, range |-> None, if_range |-> None]
    /\ upstream_req = None
    /\ upstream_res = None
    /\ handed = None
    /\ result = None
    /\ client_res = << >>
    /\ sent = 0
    /\ reads = 0

InitRange ==
    /\ range_hdr \in RangeHeaders
    /\ total_len \in TotalLens
    /\ parsed = None
    /\ call_req = None
    /\ call_res = None
    /\ OrchIdle

\* parse_range(range_val, total_len), called as test_range calls it
ParseRange ==
    /\ IsSome(range_hdr)
    /\ parsed = None
    /\ call_res = None
    /\ parsed' = Some(parse_range(Unwrap(range_hdr), total_len))
    /\ UNCHANGED << range_hdr, total_len, call_req, call_res >>
    /\ UNCHANGED orch_vars

\* hyper_response(&req, "application/test", "ETAG", "foo.zip", &data), called
\* as the tests call it, on a request with the Range header under test and
\* any If-Range header
HyperResponse ==
    /\ parsed = None
    /\ call_res = None
    /\ \E ir \in IfRangeHeaders :
         LET r == [path |-> << >>, range |-> range_hdr, if_range |-> ir]
         IN  /\ call_req' = Some(r)
             /\ call_res' = Some(hyper_response(r, TEST_CONTENT_TYPE, TEST_ETAG,
                                                TEST_FILENAME, DataOf(total_len)))
    /\ UNCHANGED << range_hdr, total_len, parsed >>
    /\ UNCHANGED orch_vars

NextRange == ParseRange \/ HyperResponse

SpecRange == InitRange /\ [][NextRange]_vars

\* ---------------------------------------------- claims: the range adapter

\* The text after the unit of a header value, trimmed
RangeText(h) == Trim(SubSeq(h, Len(BYTES_UNIT) + 1, Len(h)))

\* The three observable parts of a result of parse_range
Outcome(r) == << r.kind, r.start, r.end >>

Ignored == << "None", 0, 0 >>

\* C1: under the unit "bytes=", for numbers N, A, B that parse as u64,
\* "N-" gives [N, T) when N < T and is ignored when N >= T, "-N" gives
\* [T-N, T) when N < T and is ignored when N >= T, "A-B" gives [A, B+1) when
\* A <= B < T and is ignored otherwise, and a value with a comma is ignored.
C1_RangeTable ==
    (IsSome(parsed) /\ StartsWith(Unwrap(range_hdr), BYTES_UNIT)) =>
        LET v == RangeText(Unwrap(range_hdr))
            T == total_len
            o == Outcome(Unwrap(parsed))
        IN  /\ Contains(v, ",") => o = Ignored
            /\ ~Contains(v, ",") =>
                 /\ \A n \in 0..U64_MAX :
                      (Len(v) >= 1 /\ v[Len(v)] = "-"
                         /\ ParseU64(SubSeq(v, 1, Len(v) - 1)) = Some(n))
                      => o = IF n < T THEN << "Some", n, T >> ELSE Ignored
                 /\ \A n \in 0..U64_MAX :
                      (Len(v) >= 1 /\ v[1] = "-"
                         /\ ParseU64(SubSeq(v, 2, Len(v))) = Some(n))
                      => o = IF n < T THEN << "Some", T - n, T >> ELSE Ignored
                 /\ \A h \in 1..Len(v) : \A a, b \in 0..U64_MAX :
                      (v[h] = "-" /\ ParseU64(SubSeq(v, 1, h - 1)) = Some(a)
                         /\ ParseU64(SubSeq(v, h + 1, Len(v))) = Some(b))
                      => o = IF a <= b /\ b < T THEN << "Some", a, b + 1 >> ELSE Ignored

\* "bytes=-N" with 0 < N < T was parsed to the last N bytes
C1_Witness ==
    /\ IsSome(parsed)
    /\ StartsWith(RangeText(Unwrap(range_hdr)), << "-" >>)
    /\ Unwrap(parsed).kind = "Some"
    /\ 0 < Unwrap(parsed).start
    /\ Unwrap(parsed).start < Unwrap(parsed).end

\* C2: parse_range returns a parse error when the unit is not "bytes=", when
\* nothing follows "bytes=", and when, in a value without a comma split at its
\* first "-", the text before or after the "-" is there but does not parse as
\* u64, or both are empty.
C2_ParseErrors ==
    IsSome(parsed) =>
        LET h == Unwrap(range_hdr)
            r == Unwrap(parsed)
            v == RangeText(h)
        IN  /\ ~StartsWith(h, BYTES_UNIT) => r.kind = "Err"
            /\ (StartsWith(h, BYTES_UNIT) /\ v = << >>) => r.kind = "Err"
            /\ (StartsWith(h, BYTES_UNIT) /\ ~Contains(v, ",") /\ Contains(v, "-")) =>
                 LET d == CHOOSE i \in 1..Len(v) :
                              v[i] = "-" /\ \A j \in 1..(i - 1) : v[j] # "-"
                     A == SubSeq(v, 1, d - 1)
                     B == SubSeq(v, d + 1, Len(v))
                 IN  ( \/ (A # << >> /\ ~IsSome(ParseU64(A)))
                       \/ (B # << >> /\ ~IsSome(ParseU64(B)))
                       \/ (A = << >> /\ B = << >>) )
                     => r.kind = "Err"

\* "bytes=-N" with a number that is too large for u64 was refused
C2_Witness ==
    /\ IsSome(parsed)
    /\ StartsWith(Unwrap(range_hdr), BYTES_UNIT)
    /\ LET v == RangeText(Unwrap(range_hdr))
       IN  /\ Len(v) >= 2
           /\ v[1] = "-"
           /\ \A i \in 2..Len(v) : IsDigit(v[i])
    /\ Unwrap(parsed).kind = "Err"

\* C9: every range parse_range returns has start < end <= total_len, and
\* every 206 response streams a range inside the entity and carries a
\* Content-Range whose first byte position is not greater than its last.
C9_RangeNonEmptyInside ==
    /\ (IsSome(parsed) /\ Unwrap(parsed).kind = "Some") =>
          /\ Unwrap(parsed).start < Unwrap(parsed).end
          /\ Unwrap(parsed).end <= total_len
    /\ IsSome(call_res) =>
          /\ \A i \in 1..Len(Unwrap(call_res).stream_calls) :
               Unwrap(call_res).stream_calls[i].end <= total_len
          /\ Unwrap(call_res).status = 206 =>
               \E a, b \in 0..U64_MAX :
                  /\ a <= b
                  /\ Unwrap(call_res).content_range =
                       Some(<< "b", "y", "t", "e", "s", " " >> \o FmtU64(a) \o << "-" >>
                            \o FmtU64(b) \o << "/" >> \o FmtU64(total_len))

\* C10: no subtraction or addition on u64 in parse_range or hyper_response
\* leaves 0..U64_MAX, whatever the header value and the total length.
C10_NoOverflow ==
    /\ IsSome(parsed) => ~Unwrap(parsed).ovf
    /\ IsSome(call_res) => ~Unwrap(call_res).ovf

\* An entity of the largest length was served from a byte after the first to
\* its last byte
C10_Witness ==
    /\ IsSome(call_res)
    /\ total_len = U64_MAX
    /\ Unwrap(call_res).status = 206
    /\ Unwrap(call_res).stream_calls = << [start |-> 1, end |-> U64_MAX] >>

\* What hyper_response was called with, and what it returned
CallRange == Unwrap(call_req).range

CallIfRange == Unwrap(call_req).if_range

Res == Unwrap(call_res)

\* The full response of the tests' entity: 200, the whole body, every header
\* but Content-Range
IsFullResponse(res) ==
    /\ res.status = 200
    /\ res.content_length = Some(FmtU64(total_len))
    /\ res.body = DataOf(total_len)
    /\ res.content_range = None
    /\ res.content_type = Some(TEST_CONTENT_TYPE)
    /\ res.accept_ranges = Some(<< "b", "y", "t", "e", "s" >>)
    /\ res.etag = Some(TEST_ETAG)
    /\ res.content_disposition =
         Some(<< "a", "t", "t", "a", "c", "h", "m", "e", "n", "t", ";", " ",
                 "f", "i", "l", "e", "n", "a", "m", "e", "=", "\"",
                 "f", "o", "o", ".", "z", "i", "p", "\"" >>)

\* C3: with an If-Range header that differs from the ETag the response is 200
\* with the full body, Content-Length the total length and no Content-Range,
\* whatever the Range header; with If-Range absent or equal to the ETag the
\* response is the one the same request without If-Range gets.
C3_IfRange ==
    IsSome(call_res) =>
        /\ (IsSome(CallIfRange) /\ Unwrap(CallIfRange) # TEST_ETAG) =>
              /\ Res.status = 200
              /\ Res.body = DataOf(total_len)
              /\ Res.content_length = Some(FmtU64(total_len))
              /\ Res.content_range = None
        /\ (~IsSome(CallIfRange) \/ Unwrap(CallIfRange) = TEST_ETAG) =>
              Res = hyper_response([Unwrap(call_req) EXCEPT !.if_range = None],
                                   TEST_CONTENT_TYPE, TEST_ETAG, TEST_FILENAME,
                                   DataOf(total_len))

\* A Range header that selects a range was dropped because If-Range differs
\* from the ETag
C3_Witness ==
    /\ IsSome(call_res)
    /\ IsSome(CallRange)
    /\ parse_range(Unwrap(CallRange), total_len).kind = "Some"
    /\ CallIfRange = Some(<< "W", "R", "O", "N", "G" >>)
    /\ Res.status = 200

\* C4: without a Range header, or with one for which parse_range returns a
\* parse error or "ignored", the response is the full response.
C4_FullResponse ==
    ( /\ IsSome(call_res)
      /\ \/ ~IsSome(CallRange)
         \/ parse_range(Unwrap(CallRange), total_len).kind \in { "Err", "None" } )
    => IsFullResponse(Res)

\* A Range header "bytes=..." that does not parse, with a matching If-Range,
\* was answered with the full response
C4_Witness ==
    /\ IsSome(call_res)
    /\ IsSome(CallRange)
    /\ StartsWith(Unwrap(CallRange), BYTES_UNIT)
    /\ parse_range(Unwrap(CallRange), total_len).kind = "Err"
    /\ CallIfRange = Some(TEST_ETAG)
    /\ Res.status = 200

\* C5: when a range [s, e) applies the response is 206 with Content-Range
\* "bytes s-(e-1)/total", Content-Length e-s and the bytes [s, e) of the entity
\* from one call of stream_range([s, e)); Content-Range is there exactly when
\* the status is 206.
C5_PartialResponse ==
    IsSome(call_res) =>
        /\ IsSome(Res.content_range) <=> Res.status = 206
        /\ ( /\ IsSome(CallRange)
             /\ (~IsSome(CallIfRange) \/ Unwrap(CallIfRange) = TEST_ETAG)
             /\ parse_range(Unwrap(CallRange), total_len).kind = "Some" ) =>
               LET s == parse_range(Unwrap(CallRange), total_len).start
                   e == parse_range(Unwrap(CallRange), total_len).end
               IN  /\ Res.status = 206
                   /\ Res.content_range =
                        Some(<< "b", "y", "t", "e", "s", " " >> \o FmtU64(s) \o << "-" >>
                             \o FmtU64(e - 1) \o << "/" >> \o FmtU64(total_len))
                   /\ Res.content_length = Some(FmtU64(e - s))
                   /\ Res.body = [i \in 1..(e - s) |-> DataOf(total_len)[s + i]]
                   /\ Res.stream_calls = << [start |-> s, end |-> e] >>

\* A range strictly inside the entity was served
C5_Witness ==
    /\ IsSome(call_res)
    /\ Res.status = 206
    /\ Res.stream_calls[1].start > 0
    /\ Res.stream_calls[1].end < total_len
    /\ Res.body # << >>

\* ------------------------------------------------- the request orchestrator

\* Result<Response<Body>, (StatusCode, &'static str)>.  via names the return
\* statement an Ok comes from.
Ok(via, response) ==
    [kind |-> "Ok", via |-> via, response |-> Some(response), status |-> 0, message |-> ""]

Failed(status, message) ==
    [kind |-> "Err", via |-> "error", response |-> None, status |-> status,
     message |-> message]

\* upstream::request: strips config.strip_prefix from the path (an error when
\* a non-empty prefix is not there), targets the upstream base URL and adds
\* X-Via-Zip-Stream
upstream_request(cfg, r) ==
    IF cfg.strip_prefix # << >> /\ ~StartsWith(r.path, cfg.strip_prefix)
    THEN Failed(400, "Invalid path prefix")
    ELSE Ok("request",
            [uri |-> cfg.upstream \o Slice(r.path, Len(cfg.strip_prefix), Len(r.path)),
             x_via_zip_stream |-> cfg.via_zip_stream_header_value])

\* The complete manifest, as the chunks the upstream sends it in
MANIFEST == << "manifest-head", "manifest-tail" >>

ZIP_CONTENT_TYPE ==
    << "a", "p", "p", "l", "i", "c", "a", "t", "i", "o", "n", "/", "z", "i", "p" >>

ZIP_ETAG == << "\"", "h", "\"" >>

ZIP_FILENAME == << "a", ".", "z", "i", "p" >>

\* upstream::response: parses the manifest (502 when it is malformed), plans
\* the archive and serves it through hyper_response
upstream_response(r, body) ==
    IF body # MANIFEST THEN Failed(502, "Invalid upstream response")
    ELSE Ok("archive",
            hyper_response(r, ZIP_CONTENT_TYPE, ZIP_ETAG, ZIP_FILENAME,
                           DataOf(MaxSmallLen)))

Configs ==
    { [upstream |-> << "u" >>, strip_prefix |-> sp,
       via_zip_stream_header_value |-> << "t", "r", "u", "e" >>] :
      sp \in { << >>, << "/", "z" >> } }

Requests ==
    { [path |-> p, range |-> rg, if_range |-> ir] :
      p \in { << "/", "z", "/", "a" >>, << "/", "a" >> },
      rg \in { None, Some(BYTES_UNIT \o << "1", "-" >>), Some(BYTES_UNIT \o << "a" >>) },
      ir \in { None, Some(ZIP_ETAG) } }

\* What the upstream may answer: X-Zip-Stream absent or present with some
\* value, and a body of chunks
UpstreamResponses ==
    { [status |-> st, x_zip_stream |-> xz, body |-> b] :
      st \in { 200, 404 },
      xz \in { None, Some(<< "t", "r", "u", "e" >>), Some(<< >>) },
      b \in { MANIFEST, << "manifest-head" >>, << >> } }

RangeIdle ==
    /\ range_hdr = None
    /\ total_len = 0
    /\ parsed = None
    /\ call_req = None
    /\ call_res = None

Init ==
    /\ RangeIdle
    /\ pc = "start"
    /\ config \in Configs
    /\ req \in Requests
    /\ upstream_req = None
    /\ upstream_res = None
    /\ handed = None
    /\ result = None
    /\ client_res = << >>
    /\ sent = 0
    /\ reads = 0

\* let upstream_req = upstream::request(&config, &req)?;
BuildUpstreamRequest ==
    /\ pc = "start"
    /\ LET r == upstream_request(config, req)
       IN  IF r.kind = "Err"
           THEN /\ result' = Some(r)
                /\ pc' = "returned"
                /\ UNCHANGED upstream_req
           ELSE /\ upstream_req' = r.response
                /\ pc' = "built"
                /\ UNCHANGED result
    /\ UNCHANGED << config, req, upstream_res, handed, client_res, sent, reads >>
    /\ UNCHANGED range_vars

\* client.request(upstream_req), up to its await
SendUpstreamRequest ==
    /\ pc = "built"
    /\ sent' = sent + 1
    /\ pc' = "awaiting_upstream"
    /\ UNCHANGED << config, req, upstream_req, upstream_res, handed, result,
                    client_res, reads >>
    /\ UNCHANGED range_vars

\* Mutant of UpstreamConnectFails: a failed connection is tried once more.
UpstreamConnectFails_retry ==
    /\ pc = "awaiting_upstream"
    /\ IF sent < 2
       THEN /\ pc' = "built"
            /\ UNCHANGED result
       ELSE /\ result' = Some(Failed(503, "Upstream connection failed"))
            /\ pc' = "returned"
    /\ UNCHANGED << config, req, upstream_req, upstream_res, handed, client_res,
                    sent, reads >>
    /\ UNCHANGED range_vars

\* the await of client.request ends in an error
UpstreamConnectFails ==
    /\ pc = "awaiting_upstream"
    /\ result' = Some(Failed(503, "Upstream connection failed"))
    /\ pc' = "returned"
    /\ UNCHANGED << config, req, upstream_req, upstream_res, handed, client_res,
                    sent, reads >>
    /\ UNCHANGED range_vars

\* Mutant of UpstreamResponds: only X-Zip-Stream: true selects the archive path.
UpstreamResponds_only_true ==
    /\ pc = "awaiting_upstream"
    /\ \E r \in UpstreamResponses :
         /\ upstream_res' = Some(r)
         /\ IF r.x_zip_stream = Some(<< "t", "r", "u", "e" >>)
            THEN /\ reads' = reads + 1
                 /\ pc' = "reading_body"
                 /\ UNCHANGED result
            ELSE /\ result' = Some(Ok("proxied", r))
                 /\ pc' = "returned"
                 /\ UNCHANGED reads
    /\ UNCHANGED << config, req, upstream_req, handed, client_res, sent >>
    /\ UNCHANGED range_vars

\* the await of client.request ends in a response; X-Zip-Stream decides
UpstreamResponds ==
    /\ pc = "awaiting_upstream"
    /\ \E r \in UpstreamResponses :
         /\ upstream_res' = Some(r)
         /\ IF IsSome(r.x_zip_stream)
            THEN /\ reads' = reads + 1
                 /\ pc' = "reading_body"
                 /\ UNCHANGED result
            ELSE /\ result' = Some(Ok("proxied", r))
                 /\ pc' = "returned"
                 /\ UNCHANGED reads
    /\ UNCHANGED << config, req, upstream_req, handed, client_res, sent >>
    /\ UNCHANGED range_vars

\* Mutant of BodyReadFails: the message of the connection error is reused.
BodyReadFails_wrong_message ==
    /\ pc = "reading_body"
    /\ result' = Some(Failed(503, "Upstream connection failed"))
    /\ pc' = "returned"
    /\ UNCHANGED << config, req, upstream_req, upstream_res, handed, client_res,
                    sent, reads >>
    /\ UNCHANGED range_vars

\* the await of hyper::body::to_bytes ends in an error
BodyReadFails ==
    /\ pc = "reading_body"
    /\ result' = Some(Failed(503, "Upstream request failed"))
    /\ pc' = "returned"
    /\ UNCHANGED << config, req, upstream_req, upstream_res, handed, client_res,
                    sent, reads >>
    /\ UNCHANGED range_vars

\* the await of hyper::body::to_bytes ends with the whole body, which goes to
\* upstream::response
BodyReadCompletes ==
    /\ pc = "reading_body"
    /\ LET body == Unwrap(upstream_res).body
       IN  /\ handed' = Some(body)
           /\ result' = Some(upstream_response(req, body))
    /\ pc' = "returned"
    /\ UNCHANGED << config, req, upstream_req, upstream_res, client_res, sent, reads >>
    /\ UNCHANGED range_vars

\* the service closure: Ok(response) is sent as it is, Err((status, message))
\* becomes a response with that status and the message as its body
Respond ==
    /\ pc = "returned"
    /\ LET r == Unwrap(result)
       IN  client_res' = Append(client_res,
                                IF r.kind = "Ok" THEN Unwrap(r.response)
                                ELSE [status |-> r.status, body |-> r.message])
    /\ pc' = "done"
    /\ UNCHANGED << config, req, upstream_req, upstream_res, handed, result, sent, reads >>
    /\ UNCHANGED range_vars

Next ==
    \/ BuildUpstreamRequest
    \/ SendUpstreamRequest
    \/ UpstreamConnectFails
    \/ UpstreamResponds
    \/ BodyReadFails
    \/ BodyReadCompletes
    \/ Respond

Spec == Init /\ [][Next]_vars

\* --------------------------------------------- claims: the orchestrator

Returned == pc \in { "returned", "done" }

\* C6: once handle_request has returned on an upstream response, X-Zip-Stream
\* with any value means that the body was read, that the upstream response
\* was not returned, and that the whole body went to upstream::response
\* unless reading it failed; without the header the upstream response is
\* returned as it is, and its body was neither read nor given to
\* upstream::response.
C6_PathByHeader ==
    (Returned /\ IsSome(upstream_res)) =>
        LET u == Unwrap(upstream_res)
            r == Unwrap(result)
        IN  /\ IsSome(u.x_zip_stream) =>
                 /\ reads = 1
                 /\ r.via # "proxied"
                 /\ \/ handed = Some(u.body) /\ r = upstream_response(req, u.body)
                    \/ handed = None /\ r = Failed(503, "Upstream request failed")
                 /\ pc = "done" => client_res # << u >>
            /\ ~IsSome(u.x_zip_stream) =>
                 /\ reads = 0
                 /\ handed = None
                 /\ r.kind = "Ok" /\ r.via = "proxied" /\ r.response = Some(u)
                 /\ pc = "done" => client_res = << u >>

\* An upstream response with an empty X-Zip-Stream value had its two-chunk
\* body buffered and served as an archive
C6_Witness ==
    /\ pc = "done"
    /\ IsSome(upstream_res)
    /\ Unwrap(upstream_res).x_zip_stream = Some(<< >>)
    /\ handed = Some(MANIFEST)
    /\ Unwrap(result).via = "archive"

\* C7: the service produces at most one response, and exactly one once it is
\* done; an Err((status, message)) of handle_request becomes the response
\* with that status and that body; a failed upstream connection gives 503
\* "Upstream connection failed", a failed read of the upstream body gives 503
\* "Upstream request failed"; and the service can always go on until it
\* has responded.
C7_ErrorsBecomeResponses ==
    /\ Len(client_res) <= 1
    /\ pc = "done" <=> Len(client_res) = 1
    /\ pc # "done" => ENABLED Next
    /\ pc = "done" =>
         /\ Unwrap(result).kind = "Err" =>
              client_res = << [status |-> Unwrap(result).status,
                               body |-> Unwrap(result).message] >>
         /\ (sent = 1 /\ upstream_res = None) =>
              client_res = << [status |-> 503, body |-> "Upstream connection failed"] >>
         /\ (reads = 1 /\ handed = None) =>
              client_res = << [status |-> 503, body |-> "Upstream request failed"] >>

\* The read of a manifest body failed and the client got its 503
C7_Witness ==
    /\ pc = "done"
    /\ reads = 1
    /\ handed = None
    /\ Len(client_res) = 1
    /\ client_res[1].status = 503

C8_Counts ==
    /\ sent <= 1
    /\ reads <= 1
    /\ sent > 0 => IsSome(upstream_req)
    /\ reads > 0 => (sent = 1 /\ IsSome(upstream_res)
                     /\ IsSome(Unwrap(upstream_res).x_zip_stream))
    /\ (IsSome(result) /\ Unwrap(result).kind = "Err" /\ upstream_req = None) => sent = 0

C8_AfterError ==
    (IsSome(result) /\ Unwrap(result).kind = "Err") => (sent' = sent /\ reads' = reads)

\* C8: at most one upstream request is sent and at most one body read is
\* started per incoming request; a request is sent only after it was built,
\* a body is read only after a response with X-Zip-Stream arrived; and once
\* handle_request has failed nothing more is sent or read.
C8_NoRetry == [](C8_Counts) /\ [][C8_AfterError]_vars

\* The upstream connection failed after the one request was sent
C8_Witness ==
    /\ pc = "done"
    /\ sent = 1
    /\ upstream_res = None
    /\ Unwrap(result).kind = "Err"

====
